---------------------------- MODULE Spec2Model ----------------------------
(***************************************************************************)
(* A model of the CtrlXTEngine "reality matrix" (Engine/RealityMatrix.js): *)
(* world creation, the change protocol alterReality and the time           *)
(* controller controlTime.                                                 *)
(*                                                                         *)
(* JavaScript objects are functions from the property names they own to    *)
(* the values of these properties, so that a property an object does not   *)
(* have is a name outside its DOMAIN.  Game objects are created by the     *)
(* caller and handed over by reference: they live in a heap, and a         *)
(* world's objects array holds references into it.                         *)
(***************************************************************************)
EXTENDS Integers, Sequences, FiniteSets, TLC

VARIABLES
  heap,       \* the caller's game objects: reference -> object
  worlds,     \* developerWorld and playerWorld
  last,       \* the call made last, with the heap and worlds it started from
  nChanges    \* changes and time requests handled so far

vars == <<heap, worlds, last, nChanges>>

\* The number of changes and time requests a behaviour of the model handles.
MaxChanges == 3

(***************************************************************************)
(* JavaScript values                                                       *)
(***************************************************************************)

\* obj.key exists
HasKey(obj, key) == key \in DOMAIN obj

\* !value, for a string
Falsy(value) == value = ""

\* Object.assign(target, source): the target with every own property of the
\* source copied over it
ObjectAssign(target, source) ==
  [key \in DOMAIN target \cup DOMAIN source |->
     IF key \in DOMAIN source THEN source[key] ELSE target[key]]

\* obj with obj[key] = value
SetKey(obj, key, value) ==
  [k \in DOMAIN obj \cup {key} |-> IF k = key THEN value ELSE obj[k]]

(***************************************************************************)
(* createWorld                                                             *)
(***************************************************************************)

WorldNames == {"developerWorld", "playerWorld"}

createWorld(dimensions, ocularComposition, processingModel, dataSources) ==
  [dimensions |-> dimensions,
   ocularComposition |-> ocularComposition,
   processingModel |-> processingModel,
   objects |-> <<>>,
   timeState |-> "PLAY",
   timeSpeedMultiplier |-> 1,
   dataSources |-> dataSources,
   zeroPoint |-> [frequency |-> 0, coordinates |-> [x |-> 0, y |-> 0, z |-> 0]]]

\* The two worlds of the module, as its example usage creates them.
InitWorlds ==
  [name \in WorldNames |->
     createWorld([x |-> 100, y |-> 100, z |-> 100], "CosmicDustEntanglement",
                 "BioQuantumEntangled", <<"QuantumGPS", "QuantumDeviceMetrics">>)]

(***************************************************************************)
(* The callers' inputs                                                     *)
(***************************************************************************)

\* The game objects the callers hold: the two of the example usage, a second
\* object that carries the id of the first, and an object with an empty id.
InitHeap ==
  <<[id |-> "devObj1", color |-> "blue"],
    [id |-> "playerObj1", color |-> "green"],
    [id |-> "devObj1", color |-> "red"],
    [id |-> "", color |-> "grey"]>>

Refs == DOMAIN InitHeap

\* The ids the remove changes name
TargetIds == {"devObj1", "playerObj1"}

\* The properties the modify changes give to devObj1: a property the objects
\* have, one they do not have, and the id of another object.
PropertyMaps == {[color |-> "red"], [size |-> 10], [id |-> "playerObj1"]}

Coordinates == {[x |-> 20, y |-> 30, z |-> 0]}

\* The change records: every type with its fields, and with a field missing.
Changes ==
  {[type |-> "add", object |-> ref] : ref \in Refs}
    \cup {[type |-> "add"]}
    \cup {[type |-> "remove", targetId |-> id] : id \in TargetIds}
    \cup {[type |-> "remove"]}
    \cup {[type |-> "modify", targetId |-> "devObj1", properties |-> props] :
             props \in PropertyMaps}
    \cup {[type |-> "modify", properties |-> [size |-> 10]]}
    \cup {[type |-> "modify", targetId |-> "devObj1"]}
    \cup {[type |-> "createBlinkSpot", coordinates |-> c] : c \in Coordinates}
    \cup {[type |-> "createBlinkSpot"]}
    \cup {[type |-> "teleport"]}

\* The arrays of at most n changes
Batches(n) == UNION {[1..k -> Changes] : k \in 0..n}

\* The changes that add or remove, and the arrays of at most n of them
AddRemoveChanges == {change \in Changes : change.type \in {"add", "remove"}}

AddRemoveBatches(n) == UNION {[1..k -> AddRemoveChanges] : k \in 0..n}

\* The arrays of objects the callers entangle: none, one, two in both orders,
\* two that share an id, three, one with the object whose id is empty, and
\* one object twice
ObjectLists ==
  {<<>>, <<1>>, <<1, 2>>, <<2, 1>>, <<1, 3>>, <<1, 2, 3>>, <<2, 4>>, <<2, 2>>}

\* The arrays of states the callers give: three, two, one and none
StatesLists == {<<"red", "green", "blue">>, <<"on", "off">>, <<"red">>, <<>>}

\* The initial state indexes the callers give, when they give one
InitialStateIndexes == {-1, 1, 2}

\* The calls of applySuperposition: states, with an initial index or without
SuperpositionRequests ==
  [states : StatesLists]
    \cup [states : StatesLists, initialStateIndex : InitialStateIndexes]

\* The state indexes the callers change to
NewStateIndexes == {-1, 0, 1, 2, 99}

\* Strings the callers load that no saveWorld has returned: one that is no
\* JSON text, the empty string, the text {} and the text of a game object
OtherStrings ==
  {[text |-> "not valid data"], [text |-> ""], [json |-> <<>>],
   [json |-> [id |-> "devObj1", color |-> "blue"]]}

\* The changes, arrays, states and requests of the callers that save and load
SnapshotChanges ==
  {[type |-> "add", object |-> 1],
   [type |-> "add", object |-> 2],
   [type |-> "remove", targetId |-> "devObj1"],
   [type |-> "modify", targetId |-> "devObj1", properties |-> [size |-> 10]],
   [type |-> "createBlinkSpot", coordinates |-> [x |-> 20, y |-> 30, z |-> 0]]}

SnapshotBatches(n) == UNION {[1..k -> SnapshotChanges] : k \in 0..n}

SnapshotTimeRequests ==
  {[state |-> "PAUSE"], [state |-> "FAST FORWARD", speed |-> 2]}

SnapshotObjectLists == {<<1, 2>>}

SnapshotSuperpositionRequests ==
  {[states |-> <<"red", "green", "blue">>, initialStateIndex |-> 1],
   [states |-> <<"on", "off">>, initialStateIndex |-> 2]}

SnapshotStateIndexes == {2}

TimeStates == {"PLAY", "PAUSE", "STOP", "FAST FORWARD", "REWIND"}

\* The states a caller asks for: the five time states and a label that is none
RequestedStates == TimeStates \cup {"UNKNOWN"}

\* The speeds a caller passes; a call without one takes the default
Speeds == {-1, 0, 2}

TimeRequests ==
  {[state |-> s] : s \in RequestedStates}
    \cup {[state |-> s, speed |-> n] : s \in RequestedStates, n \in Speeds}

(***************************************************************************)
(* alterReality                                                            *)
(***************************************************************************)

\* The index of the first object of the array with this id, 0 if there is none:
\* objects.find(obj => obj.id === id)
Find(hp, objects, id) ==
  LET found == {i \in DOMAIN objects :
                  HasKey(hp[objects[i]], "id") /\ hp[objects[i]].id = id}
  IN  IF found = {} THEN 0 ELSE CHOOSE i \in found : \A j \in found : i <= j

\* case "add" without the search for an object that has the id already
caseAddNoDuplicateCheck(hp, world, change) ==
  IF \/ ~HasKey(change, "object")
     \/ ~HasKey(hp[change.object], "id")
     \/ Falsy(hp[change.object].id)
  THEN [heap |-> hp, world |-> world]
  ELSE [heap |-> hp,
        world |-> [world EXCEPT !.objects = Append(@, change.object)]]

\* case "add" where the object that comes with an id the world has takes the
\* place of the object that has it
caseAddOverwrite(hp, world, change) ==
  IF \/ ~HasKey(change, "object")
     \/ ~HasKey(hp[change.object], "id")
     \/ Falsy(hp[change.object].id)
  THEN [heap |-> hp, world |-> world]
  ELSE LET index == Find(hp, world.objects, hp[change.object].id)
       IN  IF index # 0
           THEN [heap |-> hp,
                 world |-> [world EXCEPT !.objects[index] = change.object]]
           ELSE [heap |-> hp,
                 world |-> [world EXCEPT !.objects = Append(@, change.object)]]

\* case "add"
caseAdd(hp, world, change) ==
  IF \/ ~HasKey(change, "object")
     \/ ~HasKey(hp[change.object], "id")
     \/ Falsy(hp[change.object].id)
  THEN [heap |-> hp, world |-> world]
  ELSE IF Find(hp, world.objects, hp[change.object].id) # 0
       THEN [heap |-> hp, world |-> world]
       ELSE [heap |-> hp,
             world |-> [world EXCEPT !.objects = Append(@, change.object)]]

\* case "remove" by objects.splice(objects.findIndex(...), 1), which takes the
\* last object when none has the id
caseRemoveSplice(hp, world, change) ==
  IF ~HasKey(change, "targetId") \/ Falsy(change.targetId)
  THEN [heap |-> hp, world |-> world]
  ELSE LET index == Find(hp, world.objects, change.targetId)
           at == IF index # 0 THEN index ELSE Len(world.objects)
       IN  [heap |-> hp,
            world |-> [world EXCEPT !.objects =
                         SubSeq(@, 1, at - 1) \o SubSeq(@, at + 1, Len(@))]]

\* case "remove"
caseRemove(hp, world, change) ==
  IF ~HasKey(change, "targetId") \/ Falsy(change.targetId)
  THEN [heap |-> hp, world |-> world]
  ELSE LET keep(ref) == ~HasKey(hp[ref], "id") \/ hp[ref].id # change.targetId
       IN  [heap |-> hp,
            world |-> [world EXCEPT !.objects = SelectSeq(@, keep)]]

\* case "modify" where the properties take the place of the object
caseModifyReplace(hp, world, change) ==
  IF \/ ~HasKey(change, "targetId")
     \/ Falsy(change.targetId)
     \/ ~HasKey(change, "properties")
  THEN [heap |-> hp, world |-> world]
  ELSE LET index == Find(hp, world.objects, change.targetId)
       IN  IF index # 0
           THEN [heap |-> [hp EXCEPT ![world.objects[index]] = change.properties],
                 world |-> world]
           ELSE [heap |-> hp, world |-> world]

\* case "modify"
caseModify(hp, world, change) ==
  IF \/ ~HasKey(change, "targetId")
     \/ Falsy(change.targetId)
     \/ ~HasKey(change, "properties")
  THEN [heap |-> hp, world |-> world]
  ELSE LET index == Find(hp, world.objects, change.targetId)
       IN  IF index # 0
           THEN [heap |-> [hp EXCEPT ![world.objects[index]] =
                                       ObjectAssign(@, change.properties)],
                 world |-> world]
           ELSE [heap |-> hp, world |-> world]

\* `blinkSpot-${n}`
BlinkSpotId(n) == "blinkSpot-" \o ToString(n)

\* case "createBlinkSpot" where the id is made after the push
caseCreateBlinkSpotCountAfterPush(hp, world, change) ==
  IF ~HasKey(change, "coordinates")
  THEN [heap |-> hp, world |-> world]
  ELSE LET blinkSpots == IF HasKey(world, "blinkSpots") THEN world.blinkSpots
                         ELSE <<>>
           newBlinkSpot == [id |-> BlinkSpotId(Len(blinkSpots) + 1),
                            coordinates |-> change.coordinates,
                            time |-> world.timeState]
       IN  [heap |-> hp,
            world |-> SetKey(world, "blinkSpots", Append(blinkSpots, newBlinkSpot))]

\* case "createBlinkSpot"
caseCreateBlinkSpot(hp, world, change) ==
  IF ~HasKey(change, "coordinates")
  THEN [heap |-> hp, world |-> world]
  ELSE LET blinkSpots == IF HasKey(world, "blinkSpots") THEN world.blinkSpots
                         ELSE <<>>
           newBlinkSpot == [id |-> BlinkSpotId(Len(blinkSpots)),
                            coordinates |-> change.coordinates,
                            time |-> world.timeState]
       IN  [heap |-> hp,
            world |-> SetKey(world, "blinkSpots", Append(blinkSpots, newBlinkSpot))]

\* The body of the loop: the switch on change.type
applyChange(hp, world, change) ==
  CASE change.type = "add" -> caseAdd(hp, world, change)
    [] change.type = "remove" -> caseRemove(hp, world, change)
    [] change.type = "modify" -> caseModify(hp, world, change)
    [] change.type = "createBlinkSpot" -> caseCreateBlinkSpot(hp, world, change)
    [] OTHER -> [heap |-> hp, world |-> world]

\* alterReality that returns at a change of an unknown type
RECURSIVE alterRealityReturnOnUnknown(_, _, _)
alterRealityReturnOnUnknown(hp, targetWorld, changes) ==
  IF changes = <<>> THEN [heap |-> hp, world |-> targetWorld]
  ELSE IF Head(changes).type \notin {"add", "remove", "modify", "createBlinkSpot"}
       THEN [heap |-> hp, world |-> targetWorld]
       ELSE LET done == applyChange(hp, targetWorld, Head(changes))
            IN  alterRealityReturnOnUnknown(done.heap, done.world, Tail(changes))

\* alterReality that takes the changes from the end of the array
RECURSIVE alterRealityFromTheEnd(_, _, _)
alterRealityFromTheEnd(hp, targetWorld, changes) ==
  IF changes = <<>> THEN [heap |-> hp, world |-> targetWorld]
  ELSE LET done == applyChange(hp, targetWorld, changes[Len(changes)])
       IN  alterRealityFromTheEnd(done.heap, done.world,
                                  SubSeq(changes, 1, Len(changes) - 1))

\* alterReality(targetWorld, changes): the heap and the world it leaves
RECURSIVE alterReality(_, _, _)
alterReality(hp, targetWorld, changes) ==
  IF changes = <<>> THEN [heap |-> hp, world |-> targetWorld]
  ELSE LET done == applyChange(hp, targetWorld, Head(changes))
       IN  alterReality(done.heap, done.world, Tail(changes))

(***************************************************************************)
(* controlTime                                                             *)
(***************************************************************************)

\* controlTime that takes a speed of 0 for FAST FORWARD and REWIND
controlTimeZeroSpeed(world, state, speed) ==
  IF state \in TimeStates
  THEN LET set == [world EXCEPT
                     !.timeState = state,
                     !.timeSpeedMultiplier =
                        IF state = "FAST FORWARD" \/ state = "REWIND"
                        THEN speed ELSE 1]
           reverted == [set EXCEPT !.timeState = "PLAY",
                                   !.timeSpeedMultiplier = 1]
       IN  IF state \in {"FAST FORWARD", "REWIND"} /\ speed < 0
           THEN reverted ELSE set
  ELSE [world EXCEPT !.timeSpeedMultiplier = 1]

\* controlTime that stores the speed it was given with every state
controlTimeKeepsSpeed(world, state, speed) ==
  IF state \in TimeStates
  THEN LET set == [world EXCEPT !.timeState = state,
                                !.timeSpeedMultiplier = speed]
           reverted == [set EXCEPT !.timeState = "PLAY",
                                   !.timeSpeedMultiplier = 1]
       IN  IF state \in {"FAST FORWARD", "REWIND"} /\ speed <= 0
           THEN reverted ELSE set
  ELSE [world EXCEPT !.timeSpeedMultiplier = 1]

\* controlTime that also stamps the blink spots of the world with its new state
controlTimeStampsBlinkSpots(world, state, speed) ==
  LET set == IF state \in TimeStates
             THEN IF state \in {"FAST FORWARD", "REWIND"}
                  THEN IF speed <= 0
                       THEN [world EXCEPT !.timeState = "PLAY",
                                          !.timeSpeedMultiplier = 1]
                       ELSE [world EXCEPT !.timeState = state,
                                          !.timeSpeedMultiplier = speed]
                  ELSE [world EXCEPT !.timeState = state,
                                     !.timeSpeedMultiplier = 1]
             ELSE [world EXCEPT !.timeSpeedMultiplier = 1]
  IN  IF HasKey(set, "blinkSpots")
      THEN [set EXCEPT !.blinkSpots =
              [k \in DOMAIN @ |-> [@[k] EXCEPT !.time = set.timeState]]]
      ELSE set

controlTime(world, state, speed) ==
  LET previousState == world.timeState
  IN  IF state \in TimeStates
      THEN LET set == [world EXCEPT
                         !.timeState = state,
                         !.timeSpeedMultiplier =
                            IF state = "FAST FORWARD" \/ state = "REWIND"
                            THEN speed ELSE 1]
               reverted == [set EXCEPT !.timeState = "PLAY",
                                       !.timeSpeedMultiplier = 1]
           IN  CASE state = "FAST FORWARD" -> IF speed <= 0 THEN reverted ELSE set
                 [] state = "REWIND" -> IF speed <= 0 THEN reverted ELSE set
                 [] OTHER -> set
      ELSE [world EXCEPT !.timeState = previousState,
                         !.timeSpeedMultiplier = 1]

(***************************************************************************)
(* QuantumCore                                                             *)
(***************************************************************************)

\* null and undefined, told apart from every string the callers give
Null == "null"
Undefined == "undefined"

\* object.key: undefined when the object has no such property
Get(obj, key) == IF HasKey(obj, key) THEN obj[key] ELSE Undefined

\* Array.prototype.join: the elements as strings with the separator between
\* them, null and undefined as the empty string
RECURSIVE join(_, _)
join(array, separator) ==
  LET string(element) == IF element \in {Null, Undefined} THEN "" ELSE element
  IN  IF array = <<>> THEN ""
      ELSE IF Len(array) = 1 THEN string(array[1])
      ELSE string(array[1]) \o separator \o join(Tail(array), separator)

\* createEntanglement that gives each object the ids of the other objects
createEntanglementOthersOnly(hp, objects) ==
  IF Len(objects) < 2 THEN hp
  ELSE [ref \in DOMAIN hp |->
          IF \E i \in DOMAIN objects : objects[i] = ref
          THEN LET others == SelectSeq(objects, LAMBDA o : o # ref)
               IN  ObjectAssign(hp[ref],
                     [isEntangled |-> TRUE,
                      entangledWith |->
                        join([i \in DOMAIN others |-> Get(hp[others[i]], "id")], ", ")])
          ELSE hp[ref]]

\* The heap after createEntanglement(objects), objects an array of references
createEntanglement(hp, objects) ==
  IF Len(objects) < 2 THEN hp
  ELSE LET entangledIds ==
             join([i \in DOMAIN objects |-> Get(hp[objects[i]], "id")], ", ")
       IN  [ref \in DOMAIN hp |->
              IF \E i \in DOMAIN objects : objects[i] = ref
              THEN ObjectAssign(hp[ref], [isEntangled |-> TRUE,
                                          entangledWith |-> entangledIds])
              ELSE hp[ref]]

\* breakEntanglement that also clears the objects entangled with the object
breakEntanglementAll(hp, object) ==
  IF HasKey(hp[object], "isEntangled") /\ hp[object].isEntangled
  THEN [ref \in DOMAIN hp |->
          IF Get(hp[ref], "entangledWith") = hp[object].entangledWith
          THEN ObjectAssign(hp[ref], [isEntangled |-> FALSE, entangledWith |-> Null])
          ELSE hp[ref]]
  ELSE hp

\* The heap after breakEntanglement(object)
breakEntanglement(hp, object) ==
  IF HasKey(hp[object], "isEntangled") /\ hp[object].isEntangled
  THEN [hp EXCEPT ![object] =
          ObjectAssign(@, [isEntangled |-> FALSE, entangledWith |-> Null])]
  ELSE hp

\* array[index], indexes from 0: undefined outside the array
At(array, index) ==
  IF index \in 0..(Len(array) - 1) THEN array[index + 1] ELSE Undefined

\* The heap after applySuperposition(object, states, initialStateIndex)
applySuperposition(hp, object, states, initialStateIndex) ==
  IF Len(states) < 2 THEN hp
  ELSE [hp EXCEPT ![object] =
          ObjectAssign(@, [states |-> states,
                           currentStateIndex |-> initialStateIndex,
                           currentState |-> At(states, initialStateIndex)])]

\* changeCurrentState that takes the length of the array for an index
changeCurrentStateUpToLength(hp, object, newStateIndex) ==
  IF /\ HasKey(hp[object], "states")
     /\ newStateIndex >= 0
     /\ newStateIndex <= Len(hp[object].states)
  THEN [hp EXCEPT ![object] =
          ObjectAssign(@, [currentStateIndex |-> newStateIndex,
                           currentState |-> At(hp[object].states, newStateIndex)])]
  ELSE hp

\* The heap after changeCurrentState(object, newStateIndex)
changeCurrentState(hp, object, newStateIndex) ==
  IF /\ HasKey(hp[object], "states")
     /\ newStateIndex >= 0
     /\ newStateIndex < Len(hp[object].states)
  THEN [hp EXCEPT ![object] =
          ObjectAssign(@, [currentStateIndex |-> newStateIndex,
                           currentState |-> At(hp[object].states, newStateIndex)])]
  ELSE hp

(***************************************************************************)
(* saveWorld and loadWorld                                                 *)
(*                                                                         *)
(* A text is [json |-> value] when it is the JSON text of the value, and   *)
(* [text |-> string] when it is a string that is no JSON text.             *)
(***************************************************************************)

\* The property of the object is there with the value undefined; of the
\* properties the calls set, currentState is the one that can be undefined.
IsUndefined(obj, key) == key = "currentState" /\ obj[key] = Undefined

\* What JSON.stringify writes of a game object: the properties whose value is
\* not undefined, and null for an undefined element of an array
stringifyObject(obj) ==
  [key \in {k \in DOMAIN obj : ~IsUndefined(obj, k)} |->
     IF key = "states"
     THEN [i \in DOMAIN obj.states |->
             IF obj.states[i] = Undefined THEN Null ELSE obj.states[i]]
     ELSE obj[key]]

\* JSON.stringify that leaves out the properties whose value is null as well
JSONstringifyWithoutNull(hp, world) ==
  [json |->
     [key \in DOMAIN world |->
        IF key = "objects"
        THEN [i \in DOMAIN world.objects |->
                LET obj == stringifyObject(hp[world.objects[i]])
                IN  [k \in {k \in DOMAIN obj :
                              ~(k = "entangledWith" /\ obj[k] = Null)} |-> obj[k]]]
        ELSE world[key]]]

\* JSON.stringify(world): the text of the world with its objects written out
JSONstringify(hp, world) ==
  [json |->
     [key \in DOMAIN world |->
        IF key = "objects"
        THEN [i \in DOMAIN world.objects |-> stringifyObject(hp[world.objects[i]])]
        ELSE world[key]]]

\* JSON.parse(text): the value of a JSON text, a SyntaxError for any other
JSONparse(text) ==
  IF HasKey(text, "json")
  THEN [threw |-> FALSE, value |-> text.json]
  ELSE [threw |-> TRUE]

saveWorld(hp, world) == JSONstringify(hp, world)

\* What loadWorld returns: a loaded world holds its objects, not references
loadWorld(savedState) ==
  LET parsed == JSONparse(savedState)
  IN  IF parsed.threw
      THEN createWorld([x |-> 10, y |-> 10, z |-> 10], "default", "default", <<>>)
      ELSE parsed.value

(***************************************************************************)
(* The state machine                                                       *)
(***************************************************************************)

Init ==
  /\ heap = InitHeap
  /\ worlds = InitWorlds
  /\ last = [op |-> "createWorld"]
  /\ nChanges = 0

\* A caller applies an array of changes to one of the worlds.
AlterReality(name, changes) ==
  /\ nChanges + Len(changes) <= MaxChanges
  /\ LET done == alterReality(heap, worlds[name], changes)
     IN  /\ heap' = done.heap
         /\ worlds' = [worlds EXCEPT ![name] = done.world]
  /\ last' = [op |-> "alterReality", target |-> name, changes |-> changes,
              heap |-> heap, worlds |-> worlds]
  /\ nChanges' = nChanges + Len(changes)

\* A caller asks for a time state of one of the worlds, with a speed or without.
ControlTime(name, request) ==
  /\ nChanges + 1 <= MaxChanges
  /\ LET speed == IF HasKey(request, "speed") THEN request.speed ELSE 1
     IN  worlds' = [worlds EXCEPT ![name] = controlTime(@, request.state, speed)]
  /\ last' = [op |-> "controlTime", target |-> name, request |-> request,
              heap |-> heap, worlds |-> worlds]
  /\ nChanges' = nChanges + 1
  /\ UNCHANGED heap

\* A caller entangles an array of its objects.
CreateEntanglement(objects) ==
  /\ nChanges + 1 <= MaxChanges
  /\ heap' = createEntanglement(heap, objects)
  /\ last' = [op |-> "createEntanglement", objects |-> objects,
              heap |-> heap, worlds |-> worlds]
  /\ nChanges' = nChanges + 1
  /\ UNCHANGED worlds

\* A caller breaks the entanglement of one of its objects.
BreakEntanglement(object) ==
  /\ nChanges + 1 <= MaxChanges
  /\ heap' = breakEntanglement(heap, object)
  /\ last' = [op |-> "breakEntanglement", object |-> object,
              heap |-> heap, worlds |-> worlds]
  /\ nChanges' = nChanges + 1
  /\ UNCHANGED worlds

\* A caller gives one of its objects states, with an initial index or without.
ApplySuperposition(object, request) ==
  /\ nChanges + 1 <= MaxChanges
  /\ LET initialStateIndex == IF HasKey(request, "initialStateIndex")
                              THEN request.initialStateIndex ELSE 0
     IN  heap' = applySuperposition(heap, object, request.states, initialStateIndex)
  /\ last' = [op |-> "applySuperposition", object |-> object, request |-> request,
              heap |-> heap, worlds |-> worlds]
  /\ nChanges' = nChanges + 1
  /\ UNCHANGED worlds

\* A caller changes the current state of one of its objects.
ChangeCurrentState(object, newStateIndex) ==
  /\ nChanges + 1 <= MaxChanges
  /\ heap' = changeCurrentState(heap, object, newStateIndex)
  /\ last' = [op |-> "changeCurrentState", object |-> object,
              newStateIndex |-> newStateIndex, heap |-> heap, worlds |-> worlds]
  /\ nChanges' = nChanges + 1
  /\ UNCHANGED worlds

\* A caller saves one of the worlds.
SaveWorld(name) ==
  /\ last' = [op |-> "saveWorld", target |-> name,
              savedState |-> saveWorld(heap, worlds[name]),
              heap |-> heap, worlds |-> worlds]
  /\ UNCHANGED <<heap, worlds, nChanges>>

\* A caller loads a string.
LoadWorld(savedState) ==
  /\ last' = [op |-> "loadWorld", savedState |-> savedState,
              loadedWorld |-> loadWorld(savedState),
              heap |-> heap, worlds |-> worlds]
  /\ UNCHANGED <<heap, worlds, nChanges>>

Next ==
  \/ \E name \in WorldNames, changes \in Batches(MaxChanges - nChanges) :
       AlterReality(name, changes)
  \/ \E name \in WorldNames, request \in TimeRequests :
       ControlTime(name, request)

Spec == Init /\ [][Next]_vars

\* The callers only add and remove.
NextAddRemove ==
  \E name \in WorldNames, changes \in AddRemoveBatches(MaxChanges - nChanges) :
    AlterReality(name, changes)

SpecAddRemove == Init /\ [][NextAddRemove]_vars

\* The callers entangle their objects and break entanglements.
NextEntanglement ==
  \/ \E objects \in ObjectLists : CreateEntanglement(objects)
  \/ \E object \in Refs : BreakEntanglement(object)

SpecEntanglement == Init /\ [][NextEntanglement]_vars

\* The callers give their objects states and change the current state.
NextSuperposition ==
  \/ \E object \in Refs, request \in SuperpositionRequests :
       ApplySuperposition(object, request)
  \/ \E object \in Refs, newStateIndex \in NewStateIndexes :
       ChangeCurrentState(object, newStateIndex)

SpecSuperposition == Init /\ [][NextSuperposition]_vars

\* The callers change the worlds and the objects in every way, save a world,
\* and load what saveWorld gives for a world, or another string.
NextSnapshot ==
  \/ \E name \in WorldNames, changes \in SnapshotBatches(MaxChanges - nChanges) :
       AlterReality(name, changes)
  \/ \E name \in WorldNames, request \in SnapshotTimeRequests :
       ControlTime(name, request)
  \/ \E objects \in SnapshotObjectLists : CreateEntanglement(objects)
  \/ \E object \in {1, 2} : BreakEntanglement(object)
  \/ \E object \in {1, 2}, request \in SnapshotSuperpositionRequests :
       ApplySuperposition(object, request)
  \/ \E object \in {1, 2}, newStateIndex \in SnapshotStateIndexes :
       ChangeCurrentState(object, newStateIndex)
  \/ \E name \in WorldNames : SaveWorld(name)
  \/ \E name \in WorldNames : LoadWorld(saveWorld(heap, worlds[name]))
  \/ \E savedState \in OtherStrings : LoadWorld(savedState)

SpecSnapshot == Init /\ [][NextSnapshot]_vars

(***************************************************************************)
(* What the claims speak of                                                *)
(***************************************************************************)

\* The world the last call was made on, before the call and after it
Before == last.worlds[last.target]
After == worlds[last.target]

\* The ids of the objects of a world, in the order of its objects array
IdsOf(hp, world) == [i \in DOMAIN world.objects |-> hp[world.objects[i]].id]

\* No two objects of the world have the same id.
NoSharedId(hp, world) ==
  \A i, j \in DOMAIN world.objects :
    i # j => IdsOf(hp, world)[i] # IdsOf(hp, world)[j]

\* The change adds an object whose id an object of the world has.
IsDuplicateAdd(hp, world, change) ==
  /\ change.type = "add"
  /\ HasKey(change, "object")
  /\ HasKey(hp[change.object], "id")
  /\ \E i \in DOMAIN world.objects : IdsOf(hp, world)[i] = hp[change.object].id

\* The heap and the world after the first i changes of the last batch
StateAt(i) == alterReality(last.heap, Before, SubSeq(last.changes, 1, i))

\* The heap and the world the last batch has left
Final == [heap |-> heap, world |-> After]

\* The array without its i-th element
Without(array, i) == SubSeq(array, 1, i - 1) \o SubSeq(array, i + 1, Len(array))

\* The objects of the world that have this id, in the order of the array
WithId(hp, world, id) ==
  LET has(ref) == hp[ref].id = id IN SelectSeq(world.objects, has)

\* The ids the callers' objects have or their changes name
AllIds == TargetIds \cup {InitHeap[ref].id : ref \in Refs}

\* The change is a modify with its two fields.
IsModify(change) ==
  /\ change.type = "modify"
  /\ HasKey(change, "targetId")
  /\ HasKey(change, "properties")

\* The change is one the batch rejects, in this heap and world.
IsRejected(hp, world, change) ==
  CASE change.type = "add" ->
         \/ ~HasKey(change, "object")
         \/ ~HasKey(hp[change.object], "id")
         \/ hp[change.object].id = ""
         \/ IsDuplicateAdd(hp, world, change)
    [] change.type = "remove" ->
         \/ ~HasKey(change, "targetId")
         \/ change.targetId = ""
    [] change.type = "modify" ->
         \/ ~HasKey(change, "targetId")
         \/ change.targetId = ""
         \/ ~HasKey(change, "properties")
         \/ WithId(hp, world, change.targetId) = <<>>
    [] change.type = "createBlinkSpot" -> ~HasKey(change, "coordinates")
    [] OTHER -> TRUE

\* The positions of the last batch whose change is not rejected
Accepted ==
  {i \in DOMAIN last.changes :
     ~IsRejected(StateAt(i - 1).heap, StateAt(i - 1).world, last.changes[i])}

\* The elements of the array at the positions of the set, in their order
RECURSIVE Pick(_, _)
Pick(array, positions) ==
  IF array = <<>> THEN <<>>
  ELSE Pick(SubSeq(array, 1, Len(array) - 1), positions)
         \o (IF Len(array) \in positions THEN <<array[Len(array)]>> ELSE <<>>)

\* The change adds an object that has an id, and the change removes this id.
IsValidAdd(hp, change) ==
  /\ change.type = "add"
  /\ HasKey(change, "object")
  /\ HasKey(hp[change.object], "id")
  /\ hp[change.object].id # ""

IsRemoveOf(change, id) ==
  change.type = "remove" /\ HasKey(change, "targetId") /\ change.targetId = id

\* The blink spots of a world, none when it has no blinkSpots yet
BlinkSpotsOf(world) ==
  IF HasKey(world, "blinkSpots") THEN world.blinkSpots ELSE <<>>

\* The changes of the array that create a blink spot
Creations(changes) ==
  {i \in DOMAIN changes :
     changes[i].type = "createBlinkSpot" /\ HasKey(changes[i], "coordinates")}

\* The speed of the last time request, 1 when it gave none
RequestedSpeed == IF HasKey(last.request, "speed") THEN last.request.speed ELSE 1

\* The ids in their order, as entangledWith shows them: with a comma and a
\* space between two ids
Listed(ids) ==
  CASE Len(ids) = 2 -> ids[1] \o ", " \o ids[2]
    [] Len(ids) = 3 -> ids[1] \o ", " \o ids[2] \o ", " \o ids[3]

\* The object is as it was before the last call, but for these properties.
SameBut(ref, keys) ==
  /\ DOMAIN heap[ref] = DOMAIN last.heap[ref] \cup keys
  /\ \A key \in DOMAIN last.heap[ref] \ keys : heap[ref][key] = last.heap[ref][key]

\* The object is entangled.
IsEntangled(obj) == HasKey(obj, "isEntangled") /\ obj.isEntangled

\* Every property reads the same from the two objects: a property that one of
\* them does not have reads undefined.
ReadsEqual(a, b) ==
  \A key \in DOMAIN a \cup DOMAIN b :
    IF key \in DOMAIN a \cap DOMAIN b THEN a[key] = b[key]
    ELSE IF key \in DOMAIN a THEN IsUndefined(a, key)
    ELSE IsUndefined(b, key)

\* The value has the properties of a world.
IsWorld(value) ==
  {"dimensions", "objects", "timeState", "timeSpeedMultiplier"} \subseteq DOMAIN value

\* The string is what saveWorld gives for a world.
IsSavedWorld(savedState) == HasKey(savedState, "json") /\ IsWorld(savedState.json)

(***************************************************************************)
(* C1.  A request for a state that is none of the five time states leaves  *)
(* timeState and timeSpeedMultiplier as they were before the call.         *)
(***************************************************************************)
C1_InvalidStateKeepsTime ==
  (last.op = "controlTime" /\ last.request.state \notin TimeStates) =>
    /\ After.timeState = Before.timeState
    /\ After.timeSpeedMultiplier = Before.timeSpeedMultiplier

(***************************************************************************)
(* C2.  While the callers only add and remove, no two objects of a world   *)
(* share an id.                                                            *)
(***************************************************************************)
C2_UniqueIdsAddRemove ==
  \A name \in WorldNames : NoSharedId(heap, worlds[name])

\* A batch that removes has also come with an object that carries the id of an
\* object of the world, and is not in the world.
C2_Witness ==
  /\ last.op = "alterReality"
  /\ Len(After.objects) >= 1
  /\ \E i \in DOMAIN last.changes :
       /\ IsDuplicateAdd(heap, After, last.changes[i])
       /\ \A k \in DOMAIN After.objects :
            After.objects[k] # last.changes[i].object
  /\ \E i \in DOMAIN last.changes : last.changes[i].type = "remove"

(***************************************************************************)
(* C3.  Whatever the callers do (add, remove, modify with any properties,  *)
(* createBlinkSpot), no two objects of a world share an id.                *)
(***************************************************************************)
C3_UniqueIdsAlways ==
  \A name \in WorldNames : NoSharedId(heap, worlds[name])

(***************************************************************************)
(* C4.  An add of an object whose id an object of the world has is         *)
(* skipped: the objects array and every object are the same after it as    *)
(* before it, and the batch ends as the batch without this change ends.    *)
(***************************************************************************)
C4_DuplicateAddSkipped ==
  last.op = "alterReality" =>
    \A i \in DOMAIN last.changes :
      IsDuplicateAdd(StateAt(i - 1).heap, StateAt(i - 1).world, last.changes[i]) =>
        /\ StateAt(i).world = StateAt(i - 1).world
        /\ StateAt(i).heap = StateAt(i - 1).heap
        /\ Final = alterReality(last.heap, Before, Without(last.changes, i))

\* A batch has come with an object whose id another object of the world had,
\* and a change after it has changed the world.
C4_Witness ==
  /\ last.op = "alterReality"
  /\ \E i \in DOMAIN last.changes :
       /\ IsDuplicateAdd(StateAt(i - 1).heap, StateAt(i - 1).world, last.changes[i])
       /\ \A k \in DOMAIN StateAt(i - 1).world.objects :
            StateAt(i - 1).world.objects[k] # last.changes[i].object
       /\ i < Len(last.changes)
       /\ Final # StateAt(i)

(***************************************************************************)
(* C5.  A remove of an id no object of the world has changes nothing; a    *)
(* remove that follows the same remove changes nothing; a remove leaves    *)
(* the objects with other ids, and their order, as they were.              *)
(***************************************************************************)
C5_RemoveIdempotent ==
  last.op = "alterReality" =>
    \A i \in DOMAIN last.changes :
      LET change == last.changes[i]
          was == StateAt(i - 1)
          is == StateAt(i)
      IN  (change.type = "remove" /\ HasKey(change, "targetId")) =>
            /\ WithId(was.heap, was.world, change.targetId) = <<>> => is = was
            /\ (i > 1 /\ last.changes[i - 1] = change) => is = was
            /\ is.heap = was.heap
            /\ WithId(is.heap, is.world, change.targetId) = <<>>
            /\ \A id \in AllIds \ {change.targetId} :
                 WithId(is.heap, is.world, id) = WithId(was.heap, was.world, id)
            /\ Len(is.world.objects) =
                 Len(was.world.objects)
                   - Len(WithId(was.heap, was.world, change.targetId))
            /\ [is.world EXCEPT !.objects = <<>>] = [was.world EXCEPT !.objects = <<>>]

\* A batch has removed an object and then asked for the same removal again.
C5_Witness ==
  /\ last.op = "alterReality"
  /\ \E i \in DOMAIN last.changes :
       /\ i > 1
       /\ last.changes[i].type = "remove"
       /\ last.changes[i - 1] = last.changes[i]
       /\ HasKey(last.changes[i], "targetId")
       /\ Len(StateAt(i - 1).world.objects) < Len(StateAt(i - 2).world.objects)

(***************************************************************************)
(* C6.  A modify of an id an object of the world has merges the properties *)
(* into the first such object: the object gets every property given, keeps *)
(* every other property it had, and no other object and nothing else of    *)
(* the world changes; two modifies of an object, one after the other, with *)
(* properties of different names leave it with the properties of both.  A  *)
(* modify of an id no object of the world has changes nothing.             *)
(***************************************************************************)
C6_ModifyMerges ==
  last.op = "alterReality" =>
    \A i \in DOMAIN last.changes :
      LET change == last.changes[i]
          was == StateAt(i - 1)
          is == StateAt(i)
          targets == WithId(was.heap, was.world, change.targetId)
      IN  IsModify(change) =>
            /\ targets = <<>> => is = was
            /\ targets # <<>> =>
                 LET target == targets[1]
                 IN  /\ is.world = was.world
                     /\ \A ref \in Refs \ {target} : is.heap[ref] = was.heap[ref]
                     /\ DOMAIN is.heap[target] =
                          DOMAIN was.heap[target] \cup DOMAIN change.properties
                     /\ \A key \in DOMAIN change.properties :
                          is.heap[target][key] = change.properties[key]
                     /\ \A key \in DOMAIN was.heap[target] \ DOMAIN change.properties :
                          is.heap[target][key] = was.heap[target][key]
                     /\ \A j \in DOMAIN last.changes :
                          LET next == last.changes[j]
                          IN  ( /\ j = i + 1
                                /\ IsModify(next)
                                /\ WithId(is.heap, is.world, next.targetId) # <<>>
                                /\ WithId(is.heap, is.world, next.targetId)[1] = target
                                /\ DOMAIN next.properties \cap DOMAIN change.properties = {} )
                              => /\ \A key \in DOMAIN change.properties :
                                      StateAt(j).heap[target][key] = change.properties[key]
                                 /\ \A key \in DOMAIN next.properties :
                                      StateAt(j).heap[target][key] = next.properties[key]

\* A batch has added an object and modified it twice, once a property it had
\* and once a property it had not; it has both and has kept its id.
C6_Witness ==
  /\ last.op = "alterReality"
  /\ Len(last.changes) = 3
  /\ IsModify(last.changes[2]) /\ IsModify(last.changes[3])
  /\ last.changes[2].targetId = last.changes[3].targetId
  /\ Len(After.objects) = 1
  /\ LET object == heap[After.objects[1]]
     IN  /\ object.id = last.changes[2].targetId
         /\ HasKey(object, "size") /\ object.size = 10
         /\ object.color = "red"
         /\ object # last.heap[After.objects[1]]
         /\ StateAt(2).heap # StateAt(1).heap
         /\ StateAt(3).heap # StateAt(2).heap

(***************************************************************************)
(* C7.  A change that is rejected (an unknown type, an add without an      *)
(* object or without an id or with an id the world has, a remove without a *)
(* targetId, a modify without a targetId or without properties or of an id *)
(* the world has not, a createBlinkSpot without coordinates) changes       *)
(* nothing and does not stop the batch: the batch ends as the array of its *)
(* changes that are not rejected ends.                                     *)
(***************************************************************************)
C7_RejectedChangesIsolated ==
  last.op = "alterReality" =>
    /\ \A i \in DOMAIN last.changes :
         i \notin Accepted => StateAt(i) = StateAt(i - 1)
    /\ Final = alterReality(last.heap, Before, Pick(last.changes, Accepted))

\* A batch had a change that was rejected between two changes that were not,
\* and each of these two has changed the world or an object.
C7_Witness ==
  /\ last.op = "alterReality"
  /\ Len(last.changes) = 3
  /\ Accepted = {1, 3}
  /\ StateAt(1) # StateAt(0)
  /\ Final # StateAt(2)

(***************************************************************************)
(* C8.  The changes of a batch are applied in the order of the array, each *)
(* to what the changes before it have left: a batch ends as its first k    *)
(* changes applied as one batch and the rest as a second batch end.  Add,  *)
(* modify, remove of one object in an empty world leave the world empty    *)
(* and the object modified; remove then add of an id leave an object with  *)
(* the id in the world; add then remove leave none.                        *)
(***************************************************************************)
C8_AppliedInOrder ==
  last.op = "alterReality" =>
    LET changes == last.changes
        n == Len(changes)
        id == last.heap[changes[1].object].id
    IN  /\ \A k \in 0..n :
             LET first == alterReality(last.heap, Before, SubSeq(changes, 1, k))
             IN  Final = alterReality(first.heap, first.world, SubSeq(changes, k + 1, n))
        /\ ( /\ n = 3
              /\ Before.objects = <<>>
              /\ IsValidAdd(last.heap, changes[1])
              /\ IsModify(changes[2]) /\ changes[2].targetId = id
              /\ ~HasKey(changes[2].properties, "id")
              /\ IsRemoveOf(changes[3], id) )
            => /\ After.objects = <<>>
               /\ \A key \in DOMAIN changes[2].properties :
                    heap[changes[1].object][key] = changes[2].properties[key]
        /\ ( /\ n = 2
              /\ IsValidAdd(last.heap, changes[1])
              /\ IsRemoveOf(changes[2], id) )
            => WithId(heap, After, id) = <<>>
        /\ ( /\ n = 2
              /\ IsValidAdd(last.heap, changes[2])
              /\ IsRemoveOf(changes[1], last.heap[changes[2].object].id) )
            => WithId(heap, After, last.heap[changes[2].object].id)
                 = <<changes[2].object>>

\* A batch has added an object to an empty world, given it a size and removed
\* it.
C8_Witness ==
  /\ last.op = "alterReality"
  /\ Len(last.changes) = 3
  /\ Before.objects = <<>>
  /\ IsValidAdd(last.heap, last.changes[1])
  /\ IsModify(last.changes[2])
  /\ last.changes[2].targetId = last.heap[last.changes[1].object].id
  /\ IsRemoveOf(last.changes[3], last.changes[2].targetId)
  /\ After.objects = <<>>
  /\ HasKey(heap[last.changes[1].object], "size")
  /\ ~HasKey(last.heap[last.changes[1].object], "size")

(***************************************************************************)
(* C9.  The blink spots of a world are a log that only grows, numbered in  *)
(* order: the k-th blink spot, counted from 0, has the id blinkSpot-k, so  *)
(* the ids differ; a batch appends one blink spot for each createBlinkSpot *)
(* with coordinates and leaves the blink spots that were there as they     *)
(* were; controlTime, and a batch on the other world, leave them alone.    *)
(***************************************************************************)
C9_BlinkSpotsAppendOnly ==
  /\ \A name \in WorldNames :
       LET spots == BlinkSpotsOf(worlds[name])
       IN  /\ \A k \in DOMAIN spots : spots[k].id = "blinkSpot-" \o ToString(k - 1)
           /\ \A k, l \in DOMAIN spots : k # l => spots[k].id # spots[l].id
  /\ last.op # "createWorld" =>
       \A name \in WorldNames :
         LET was == BlinkSpotsOf(last.worlds[name])
             is == BlinkSpotsOf(worlds[name])
         IN  /\ Len(is) >= Len(was)
             /\ SubSeq(is, 1, Len(was)) = was
             /\ Len(is) = Len(was)
                   + (IF last.op = "alterReality" /\ last.target = name
                      THEN Cardinality(Creations(last.changes)) ELSE 0)

\* A world that had a blink spot has got a second one from a batch, after its
\* time state was changed.
C9_Witness ==
  /\ last.op = "alterReality"
  /\ Len(BlinkSpotsOf(Before)) = 1
  /\ Len(BlinkSpotsOf(After)) = 2
  /\ After.blinkSpots[1].time # After.blinkSpots[2].time

(***************************************************************************)
(* C10.  A request for FAST FORWARD or REWIND with a speed of 0 or less    *)
(* leaves the world at PLAY with the speed 1, whatever its state was; with *)
(* a speed above 0 it leaves the world in the state asked for, with the    *)
(* speed given.                                                            *)
(***************************************************************************)
C10_SpeedFallback ==
  (last.op = "controlTime" /\ last.request.state \in {"FAST FORWARD", "REWIND"}) =>
    /\ RequestedSpeed <= 0 =>
         After.timeState = "PLAY" /\ After.timeSpeedMultiplier = 1
    /\ RequestedSpeed > 0 =>
         /\ After.timeState = last.request.state
         /\ After.timeSpeedMultiplier = RequestedSpeed

\* A world that was fast forwarding at the speed 2 has been asked to rewind at
\* the speed 0, and plays.
C10_Witness ==
  /\ last.op = "controlTime"
  /\ last.request = [state |-> "REWIND", speed |-> 0]
  /\ Before.timeState = "FAST FORWARD"
  /\ Before.timeSpeedMultiplier = 2
  /\ After.timeState = "PLAY"


(***************************************************************************)
(* C11.  Whatever time requests the worlds have got, for one of the five   *)
(* states or for none of them, with a speed or without: the timeState of a *)
(* world is one of the five states, its timeSpeedMultiplier is above 0,    *)
(* and it is 1 while the world is at PLAY, PAUSE or STOP.                  *)
(***************************************************************************)
C11_TimeFieldsValid ==
  \A name \in WorldNames :
    /\ worlds[name].timeState \in TimeStates
    /\ worlds[name].timeSpeedMultiplier > 0
    /\ worlds[name].timeState \in {"PLAY", "PAUSE", "STOP"} =>
         worlds[name].timeSpeedMultiplier = 1

\* A world that was rewinding at the speed 2 has been asked to pause with the
\* speed 2, and pauses at the speed 1.
C11_Witness ==
  /\ last.op = "controlTime"
  /\ last.request = [state |-> "PAUSE", speed |-> 2]
  /\ Before.timeState = "REWIND"
  /\ Before.timeSpeedMultiplier = 2
  /\ After.timeState = "PAUSE"
  /\ After.timeSpeedMultiplier = 1


(***************************************************************************)
(* C12.  createEntanglement with two objects or more leaves each of them   *)
(* entangled, with an entangledWith that lists the ids of all the objects  *)
(* of the call in the order of the call, its own among them, and leaves    *)
(* their other properties and the other objects as they were; the same     *)
(* call once more changes nothing.  With fewer than two objects it changes *)
(* no object.                                                              *)
(***************************************************************************)
C12_EntanglementListsAll ==
  last.op = "createEntanglement" =>
    LET objects == last.objects
        ids == [i \in DOMAIN objects |-> last.heap[objects[i]].id]
        among(ref) == \E i \in DOMAIN objects : objects[i] = ref
    IN  /\ worlds = last.worlds
        /\ IF Len(objects) >= 2
           THEN /\ \A ref \in Refs :
                     IF among(ref)
                     THEN /\ heap[ref].isEntangled = TRUE
                          /\ heap[ref].entangledWith = Listed(ids)
                          /\ SameBut(ref, {"isEntangled", "entangledWith"})
                     ELSE heap[ref] = last.heap[ref]
                /\ createEntanglement(heap, objects) = heap
           ELSE heap = last.heap

\* Three objects that were entangled by a call have been entangled by the same
\* call once more, and are as they were: each lists the three ids.
C12_Witness ==
  /\ last.op = "createEntanglement"
  /\ last.objects = <<1, 2, 3>>
  /\ IsEntangled(last.heap[3])
  /\ heap = last.heap
  /\ \A ref \in {1, 2, 3} :
       /\ IsEntangled(heap[ref])
       /\ heap[ref].entangledWith = "devObj1, playerObj1, devObj1"

(***************************************************************************)
(* C13.  breakEntanglement on an entangled object leaves it not entangled, *)
(* with entangledWith null, and changes no other object: the objects it    *)
(* was entangled with stay entangled and keep an entangledWith that names  *)
(* it.  On an object that is not entangled it changes nothing.             *)
(***************************************************************************)
C13_BreakIsOneSided ==
  last.op = "breakEntanglement" =>
    /\ worlds = last.worlds
    /\ \A ref \in Refs \ {last.object} : heap[ref] = last.heap[ref]
    /\ IF IsEntangled(last.heap[last.object])
       THEN /\ heap[last.object].isEntangled = FALSE
            /\ heap[last.object].entangledWith = Null
            /\ SameBut(last.object, {"isEntangled", "entangledWith"})
       ELSE heap[last.object] = last.heap[last.object]

\* Of two entangled objects the first has had its entanglement broken; the
\* second is entangled as before, and its entangledWith names the first.
C13_Witness ==
  /\ last.op = "breakEntanglement"
  /\ last.object = 1
  /\ IsEntangled(last.heap[1])
  /\ ~IsEntangled(heap[1])
  /\ heap[1].entangledWith = Null
  /\ IsEntangled(heap[2])
  /\ heap[2].entangledWith = "devObj1, playerObj1"


(***************************************************************************)
(* C14.  Whatever calls of applySuperposition, with any states and any     *)
(* initial index, and of changeCurrentState the objects have got: an       *)
(* object that has states has two of them or more, and a currentStateIndex *)
(* from 0 up to, and not including, their number.                          *)
(***************************************************************************)
C14_StateIndexInBounds ==
  \A ref \in Refs :
    HasKey(heap[ref], "states") =>
      /\ Len(heap[ref].states) >= 2
      /\ heap[ref].currentStateIndex >= 0
      /\ heap[ref].currentStateIndex < Len(heap[ref].states)

(***************************************************************************)
(* C15.  changeCurrentState changes nothing when the object has no states, *)
(* or the new index is below 0, or it is the number of the states or       *)
(* above, as 99 is for three states.  With an index from 0 up to that      *)
(* number it sets currentStateIndex to the index and currentState to the   *)
(* state at the index, and leaves the states and all else as they were.    *)
(***************************************************************************)
C15_ChangeCurrentStateGuarded ==
  last.op = "changeCurrentState" =>
    LET was == last.heap[last.object]
        index == last.newStateIndex
    IN  /\ worlds = last.worlds
        /\ \A ref \in Refs \ {last.object} : heap[ref] = last.heap[ref]
        /\ IF \/ ~HasKey(was, "states")
              \/ index < 0
              \/ index >= Len(was.states)
           THEN heap[last.object] = was
           ELSE /\ heap[last.object].currentStateIndex = index
                /\ heap[last.object].currentState = was.states[index + 1]
                /\ heap[last.object].states = was.states
                /\ SameBut(last.object, {"currentStateIndex", "currentState"})

\* An object with three states, whose current state was the second, has been
\* asked for the state 99 and is as it was.
C15_Witness ==
  /\ last.op = "changeCurrentState"
  /\ last.newStateIndex = 99
  /\ HasKey(last.heap[last.object], "states")
  /\ last.heap[last.object].states = <<"red", "green", "blue">>
  /\ last.heap[last.object].currentStateIndex = 1
  /\ heap[last.object].currentStateIndex = 1
  /\ heap[last.object].currentState = "green"


C17_LoadFallsBackToDefault ==
  (last.op = "loadWorld" /\ ~IsSavedWorld(last.savedState)) =>
    /\ IsWorld(last.loadedWorld)
    /\ last.loadedWorld.objects = <<>>
    /\ last.loadedWorld.timeState = "PLAY"
    /\ last.loadedWorld.timeSpeedMultiplier = 1
    /\ last.loadedWorld.dimensions = [x |-> 10, y |-> 10, z |-> 10]


(***************************************************************************)
(* C18.  A batch of changes to one world leaves the other world as it was: *)
(* the same objects, each with the same value of every property, the same  *)
(* blink spots, the same timeState and timeSpeedMultiplier; also when one  *)
(* object was added to both worlds.                                        *)
(***************************************************************************)
C18_WorldsIndependent ==
  last.op = "alterReality" =>
    \A name \in WorldNames \ {last.target} :
      /\ worlds[name] = last.worlds[name]
      /\ \A i \in DOMAIN worlds[name].objects :
           heap[worlds[name].objects[i]] = last.heap[worlds[name].objects[i]]

(***************************************************************************)
(* C19.  A modify changes only the other properties of its target: the id  *)
(* of the object, its isEntangled and entangledWith, and its states,       *)
(* currentStateIndex and currentState are after the change what they were  *)
(* before it.                                                              *)
(***************************************************************************)
C19_ModifyKeepsIdentity ==
  last.op = "alterReality" =>
    \A i \in DOMAIN last.changes :
      LET change == last.changes[i]
          was == StateAt(i - 1)
          is == StateAt(i)
      IN  (IsModify(change) /\ WithId(was.heap, was.world, change.targetId) # <<>>) =>
            LET ref == WithId(was.heap, was.world, change.targetId)[1]
            IN  \A key \in {"id", "isEntangled", "entangledWith",
                            "states", "currentStateIndex", "currentState"} :
                  /\ HasKey(is.heap[ref], key) = HasKey(was.heap[ref], key)
                  /\ HasKey(was.heap[ref], key) =>
                       is.heap[ref][key] = was.heap[ref][key]

(***************************************************************************)
(* C20.  A blink spot holds the timeState its world had when its           *)
(* createBlinkSpot was applied, and keeps it: no later time request, and   *)
(* no later batch, changes the time of a blink spot that is there.         *)
(***************************************************************************)
C20_BlinkSpotKeepsTime ==
  /\ last.op = "alterReality" =>
       \A i \in Creations(last.changes) :
         LET spots == StateAt(i).world.blinkSpots
         IN  spots[Len(spots)].time = StateAt(i - 1).world.timeState
  /\ last.op # "createWorld" =>
       \A name \in WorldNames :
         \A k \in DOMAIN BlinkSpotsOf(last.worlds[name]) :
           /\ k \in DOMAIN BlinkSpotsOf(worlds[name])
           /\ worlds[name].blinkSpots[k].time = last.worlds[name].blinkSpots[k].time

\* A world that got a blink spot while it paused has been asked to play: it
\* plays, and its blink spot holds PAUSE.
C20_Witness ==
  /\ last.op = "controlTime"
  /\ Before.timeState = "PAUSE"
  /\ Len(BlinkSpotsOf(Before)) = 1
  /\ Before.blinkSpots[1].time = "PAUSE"
  /\ After.timeState = "PLAY"
  /\ After.blinkSpots[1].time = "PAUSE"

=============================================================================
